---- MODULE Spec2Model ----
(***************************************************************************)
(* SimpleBench: baseline store (simplebench-runtime/src/baseline.rs),      *)
(* regression detector (baseline.rs, statistics.rs, changepoint.rs), the   *)
(* per-result baseline processing of the orchestrator                      *)
(* (cargo-simplebench/src/main.rs, simplebench-runtime/src/lib.rs), the    *)
(* measurement engine (simplebench-runtime/src/measurement.rs) and the     *)
(* batched execution of runner processes (cargo-simplebench/src/main.rs,   *)
(* topology.rs).                                                           *)
(*                                                                         *)
(* The store is modelled for one machine and one (group, benchmark) pair:  *)
(* the directory <root>/<machine_id>/<group>_<benchmark>/ and the files    *)
(* <timestamp>.json in it.                                                 *)
(***************************************************************************)
EXTENDS Integers, Sequences, FiniteSets, TLC

(***************************************************************************)
(* Bounds of the model.                                                    *)
(***************************************************************************)
\* number of save attempts that reach fs::write in one behaviour
MaxSaves == 3
\* seconds the wall clock advances after the start of a behaviour
MaxTick == 2
\* largest `count` passed to load_recent_baselines
MaxCount == 2
\* seconds the wall clock advances while the orchestrators run
MaxRunTick == 1

\* wall-clock seconds (within one hour) at which a behaviour may start:
\* just before the seconds roll over from one digit to two
StartClocks == {8}

\* per-run mean times (ns) a measured benchmark may report
RunMeans == {10, 11, 20}

VARIABLES
    clock,      \* wall clock, seconds within the current hour (chrono::Utc::now)
    dirExists,  \* benchmark_dir(crate, bench) exists and is a directory
    runs,       \* the *.json files of benchmark_dir: file name -> BaselineData
    saves,      \* number of successful save_baseline calls so far
    verdicts,   \* save ordinal of a stored record -> verdict of the detector for that run
    ret,        \* what the last operation returned
    meas,       \* the measurement of one benchmark inside a runner process
    orch,       \* run_benchmarks_with_cores: the orchestrator's locals
    kids,       \* per benchmark: its runner process, pipes and reader threads
    chan,       \* the mpsc channel of the current batch
    disk        \* the machine directory of the store: path -> directory or file

storeVars == <<clock, dirExists, runs, saves, verdicts, ret>>
measureVars == <<meas>>
runnerVars == <<orch, kids, chan>>
machineVars == <<disk>>
vars == <<storeVars, measureVars, runnerVars, machineVars>>

----------------------------------------------------------------------------
(***************************************************************************)
(* Sequences and file names.                                               *)
(***************************************************************************)
Min(a, b) == IF a <= b THEN a ELSE b

Reverse(s) == [i \in 1..Len(s) |-> s[Len(s) + 1 - i]]

\* byte codes of the characters used in a run file name
Digit(d) == 48 + d
Dash == 45

\* Ord for byte strings (OsString / String comparison): first differing
\* byte decides, a proper prefix sorts first
RECURSIVE LexLess(_, _)
LexLess(a, b) ==
    IF b = <<>> THEN FALSE
    ELSE IF a = <<>> THEN TRUE
    ELSE IF Head(a) # Head(b) THEN Head(a) < Head(b)
    ELSE LexLess(Tail(a), Tail(b))

\* decimal digits of n without padding
RECURSIVE Decimal(_)
Decimal(n) == IF n < 10 THEN <<Digit(n)>> ELSE Decimal(n \div 10) \o <<Digit(n % 10)>>

\* a bug variant of FormatTimestamp: minutes and seconds not zero-padded
FormatTimestampUnpadded(c) == Decimal(c \div 60) \o <<Dash>> \o Decimal(c % 60)

\* chrono format "%Y-%m-%dT%H-%M-%S" of get_run_path; the clock stays
\* within one hour, so the "%Y-%m-%dT%H-" prefix is the same for every
\* file and only "%M-%S" (two digits each) is kept
FormatTimestamp(c) ==
    <<Digit((c \div 60) \div 10), Digit((c \div 60) % 10), Dash,
      Digit((c % 60) \div 10), Digit((c % 60) % 10)>>

\* get_run_path: the file a save at wall-clock second c writes
get_run_path(c) == FormatTimestamp(c)

\* runs.sort_by_key(|e| e.file_name()) / runs.sort(): ascending file names
RECURSIVE SortNames(_)
SortNames(S) ==
    IF S = {} THEN <<>>
    ELSE LET m == CHOOSE x \in S : \A y \in S \ {x} : LexLess(x, y)
         IN  <<m>> \o SortNames(S \ {m})

\* list_runs: all run file names of the benchmark, ascending
list_runs(dir, files) == IF ~dir THEN <<>> ELSE SortNames(DOMAIN files)

----------------------------------------------------------------------------
(***************************************************************************)
(* Baseline store operations.                                              *)
(***************************************************************************)
None == [some |-> FALSE]
Some(v) == [some |-> TRUE, value |-> v]

RECURSIVE SeqSum(_)
SeqSum(s) == IF s = <<>> THEN 0 ELSE Head(s) + SeqSum(Tail(s))

RECURSIVE InsertSorted(_, _)
InsertSorted(x, s) ==
    IF s = <<>> THEN <<x>>
    ELSE IF x <= Head(s) THEN <<x>> \o s
    ELSE <<Head(s)>> \o InsertSorted(x, Tail(s))

\* Vec::sort on timings
RECURSIVE SortTimings(_)
SortTimings(s) == IF s = <<>> THEN <<>> ELSE InsertSorted(Head(s), SortTimings(Tail(s)))

\* the non-empty branch of calculate_statistics for a list in the order
\* `sorted`; variance is variance_sum / sample_count and std_dev its square
\* root, both f64 and not kept
StatisticsOf(samples, sorted) ==
    LET sample_count == Len(samples)
        at(idx) == sorted[Min(idx, sample_count - 1) + 1]
        m == SeqSum(samples) \div sample_count
    IN  [mean |-> m,
         median |-> at((sample_count * 50) \div 100),
         p90 |-> at((sample_count * 90) \div 100),
         p99 |-> at((sample_count * 99) \div 100),
         variance_sum |-> SeqSum([i \in DOMAIN samples |-> (samples[i] - m) * (samples[i] - m)]),
         min |-> sorted[1],
         max |-> sorted[sample_count],
         sample_count |-> sample_count]

\* a bug variant of calculate_statistics: the samples are not sorted
calculate_statistics_unsorted(samples) ==
    IF Len(samples) = 0
    THEN [mean |-> 0, median |-> 0, p90 |-> 0, p99 |-> 0, variance_sum |-> 0,
          min |-> 0, max |-> 0, sample_count |-> 0]
    ELSE StatisticsOf(samples, samples)

\* calculate_statistics (lib.rs): zeros for an empty list, else mean,
\* percentiles, minimum and maximum read from the sorted copy
calculate_statistics(samples) ==
    IF Len(samples) = 0
    THEN [mean |-> 0, median |-> 0, p90 |-> 0, p99 |-> 0, variance_sum |-> 0,
          min |-> 0, max |-> 0, sample_count |-> 0]
    ELSE StatisticsOf(samples, SortTimings(samples))

\* BenchResult with its identifier, its timings and percentiles.mean; a
\* run of the store model reports one timing, which is its mean
BenchResults ==
    {[mean |-> t, name |-> <<"v">>, module |-> <<"g">>, all_timings |-> <<t>>] :
        t \in RunMeans}

\* BaselineData::from_bench_result: `mean` is percentiles.mean; `timestamp`
\* is the rfc3339 instant of the save (sub-second resolution), modelled as
\* the ordinal of the save
from_bench_result(result, was_regression, ordinal) ==
    [benchmark_name |-> result.name, module |-> result.module, mean |-> result.mean,
     samples |-> result.all_timings,
     statistics |-> calculate_statistics(result.all_timings),
     was_regression |-> was_regression, timestamp |-> ordinal]

\* a bug variant of the walk of load_recent_baselines: flagged runs are kept
WalkRecentNoSkip(sorted, files, i, count, acc) ==
    LET RECURSIVE W(_, _)
        W(j, a) == IF j = 0 \/ Len(a) >= count THEN a
                   ELSE W(j - 1, Append(a, files[sorted[j]]))
    IN  W(i, acc)

\* the loop `for entry in runs.iter().rev()` of load_recent_baselines:
\* stop once `count` baselines are collected, skip flagged runs
RECURSIVE WalkRecent(_, _, _, _, _)
WalkRecent(sorted, files, i, count, acc) ==
    IF i = 0 \/ Len(acc) >= count THEN acc
    ELSE IF ~files[sorted[i]].was_regression
         THEN WalkRecent(sorted, files, i - 1, count, Append(acc, files[sorted[i]]))
         ELSE WalkRecent(sorted, files, i - 1, count, acc)

\* a bug variant of load_recent_baselines: the final reverse is missing
load_recent_baselines_no_reverse(dir, files, count) ==
    IF ~dir \/ DOMAIN files = {} THEN <<>>
    ELSE LET sorted == SortNames(DOMAIN files)
         IN  WalkRecent(sorted, files, Len(sorted), count, <<>>)

\* load_recent_baselines (the Ok value)
load_recent_baselines(dir, files, count) ==
    IF ~dir \/ DOMAIN files = {} THEN <<>>
    ELSE LET sorted == SortNames(DOMAIN files)
         IN  Reverse(WalkRecent(sorted, files, Len(sorted), count, <<>>))

\* a bug variant of load_baseline: no fallback to the legacy file
load_baseline_no_legacy(dir, files, legacy) ==
    IF ~dir \/ DOMAIN files = {} THEN None
    ELSE LET sorted == SortNames(DOMAIN files)
         IN  Some(files[sorted[Len(sorted)]])

\* load_baseline (the Ok value): the record of the last file name of the
\* run directory if that directory exists, else the record of the legacy
\* single file (`legacy` is None when that file does not exist)
load_baseline(dir, files, legacy) ==
    IF dir
    THEN IF DOMAIN files = {} THEN None
         ELSE LET sorted == SortNames(DOMAIN files)
              IN  Some(files[sorted[Len(sorted)]])
    ELSE legacy

\* the effect of save_baseline on the store; `fail` is where an I/O error
\* strikes: "mkdir" (ensure_dir_exists), "write" (fs::write) or "none".
\* Once the directory exists a failing ensure_dir_exists has the effect of
\* a failing fs::write, so "mkdir" is drawn only while it does not exist.
FailPoints == {"none", "mkdir", "write"}

SaveEffect(result, was_regression, fail) ==
    /\ fail = "mkdir" => ~dirExists
    /\ dirExists' = (dirExists \/ fail # "mkdir")
    /\ IF fail = "none"
       THEN /\ runs' = [f \in DOMAIN runs \cup {get_run_path(clock)} |->
                          IF f = get_run_path(clock)
                          THEN from_bench_result(result, was_regression, saves + 1)
                          ELSE runs[f]]
            /\ saves' = saves + 1
       ELSE UNCHANGED <<runs, saves>>

----------------------------------------------------------------------------
(***************************************************************************)
(* Statistics (statistics.rs).  Means are integers (u128 nanoseconds cast  *)
(* to f64); the f64 arithmetic is modelled by exact rational arithmetic,   *)
(* kept in integers by scaling with n = len(values):                       *)
(*    n * mean = Sum,   n * (x - mean) = n*x - Sum,                        *)
(*    n^3 * variance = SumSq = sum of (n*x - Sum)^2.                       *)
(***************************************************************************)
Abs(x) == IF x < 0 THEN -x ELSE x

\* d*d > q for integers d and q >= 0, without forming d*d
SqGt(d, q) == d # 0 /\ Abs(d) > q \div Abs(d)

\* n * mean(values)
mean(values) == SeqSum(values)

\* n^3 * variance(values); variance is 0 for fewer than two values
variance(values) ==
    IF Len(values) < 2 THEN 0
    ELSE SeqSum([i \in 1..Len(values) |->
                   (Len(values) * values[i] - mean(values))
                 * (Len(values) * values[i] - mean(values))])

\* z_score(value, mean, stddev) for the mean and standard deviation of
\* `values`: the number num / sqrt(ss / n), with sign of num, and 0 when
\* the deviation is below 1e-10 (for integer values: when it is 0)
z_score(value, values) ==
    IF variance(values) = 0 THEN [num |-> 0, n |-> 1, ss |-> 1]
    ELSE [num |-> Len(values) * value - mean(values),
          n |-> Len(values), ss |-> variance(values)]

\* z.abs() > k  and  z.abs() >= k  for an integer k:
\*   num^2 * n > k^2 * ss
AbsGt(z, k) == IF z.ss = 0 THEN z.num # 0
               ELSE SqGt(z.num, (k * k * z.ss) \div z.n)
AbsGe(z, k) ==
    IF z.ss = 0 THEN z.num # 0
    ELSE \/ AbsGt(z, k)
         \/ /\ (k * k * z.ss) % z.n = 0
            /\ (k * k * z.ss) \div z.n > 0
            /\ SqGt(z.num, ((k * k * z.ss) \div z.n) - 1)

\* the z_critical table of detect_regression_with_cpd, as a fraction;
\* confidence levels are in thousandths
z_critical(confidence_level) ==
    IF Abs(confidence_level - 900) < 10 THEN <<641, 500>>        \* 1.282
    ELSE IF Abs(confidence_level - 950) < 10 THEN <<329, 200>>   \* 1.645
    ELSE IF Abs(confidence_level - 990) < 10 THEN <<1163, 500>>  \* 2.326
    ELSE <<49, 25>>                                              \* 1.96

\* upper_bound = hist_mean + z_critical * hist_stddev, kept symbolically
upper_bound(values, confidence_level) ==
    [sum |-> mean(values), n |-> Len(values), ss |-> variance(values),
     zc |-> z_critical(confidence_level)]

\* a bug variant of ExceedsBound: value < lower_bound or value >
\* upper_bound (a two-sided test)
OutsideBounds(value, ub) ==
    LET d == ub.n * value - ub.sum
    IN  /\ d # 0
        /\ \/ ub.ss = 0
           \/ SqGt(d, (ub.zc[1] * ub.zc[1] * ub.ss) \div (ub.zc[2] * ub.zc[2] * ub.n))

\* value > ub:   n*value - sum > (a/b) * sqrt(ss / n)
ExceedsBound(value, ub) ==
    LET d == ub.n * value - ub.sum
    IN  /\ d > 0
        /\ \/ ub.ss = 0
           \/ SqGt(d, (ub.zc[1] * ub.zc[1] * ub.ss) \div (ub.zc[2] * ub.zc[2] * ub.n))

\* percentage_change = ((current - hist_mean) / hist_mean) * 100, as the
\* fraction num/den; den = 0 stands for the f64 results +inf (num > 0)
\* and NaN (num = 0)
percentage_change(value, values) ==
    [num |-> 100 * (Len(values) * value - mean(values)), den |-> mean(values)]

\* percentage_change > threshold (threshold in whole percent); a NaN
\* compares false
PctGt(pc, threshold) ==
    IF pc.den = 0 THEN pc.num > 0 ELSE pc.num > threshold * pc.den

----------------------------------------------------------------------------
(***************************************************************************)
(* Change-point detector (changepoint.rs).  Probabilities are fixed-point  *)
(* numbers in thousandths, truncated after each operation.                 *)
(***************************************************************************)
PScale == 1000

\* floor of the square root of x, for 0 <= x <= PScale^2, by bisection
RECURSIVE SqrtBetween(_, _, _)
SqrtBetween(lo, hi, x) ==
    IF lo = hi THEN lo
    ELSE LET mid == (lo + hi + 1) \div 2
         IN  IF mid * mid <= x THEN SqrtBetween(mid, hi, x)
                               ELSE SqrtBetween(lo, mid - 1, x)

ISqrt(x) == SqrtBetween(0, PScale, x)

\* r * (den / (den + n*d*d))^k, truncating after every factor; the
\* quotient is 0 as soon as n*d*d exceeds r*den
RECURSIVE PowFrac(_, _, _, _, _)
PowFrac(r, den, n, d, k) ==
    IF k = 0 THEN r
    ELSE IF SqGt(d, (r * den) \div n) THEN 0
    ELSE PowFrac((r * den) \div (den + n * d * d), den, n, d, k - 1)

\* BayesianCPD::student_t_likelihood for a non-empty history:
\*   t^2 = n*d^2 / ss  (variance 1.0 and so t^2 = d^2 for one observation),
\*   likelihood = (1 + t^2/df)^(-(df+1)/2)
student_t_likelihood(value, historical) ==
    LET n  == Len(historical)
        d  == n * value - mean(historical)
        ss == variance(historical)
        df == IF n - 1 > 1 THEN n - 1 ELSE 1
    IN  IF n > 1 /\ ss = 0
        THEN \* variance < 1e-10: exp(-0.5 z^2) with stddev floored at 1e-5;
             \* 1 on the mean, and underflows to 0 one unit or more off it
             IF d = 0 THEN PScale ELSE 0
        ELSE ISqrt(PowFrac(PScale * PScale, IF n > 1 THEN df * ss ELSE df,
                           n, d, df + 1))

\* a bug variant of bayesian_change_point_probability: the product of
\* evidence and prior is subtracted
bayesian_change_point_probability_discounted(value, historical, hazard_rate) ==
    IF historical = <<>> THEN 0
    ELSE LET unlikelihood == PScale - Min(student_t_likelihood(value, historical), PScale)
             change_prob == (7 * unlikelihood * PScale + 3 * hazard_rate * PScale
                             - 5 * unlikelihood * hazard_rate) \div (10 * PScale)
         IN  Min(change_prob, PScale)

\* BayesianCPD::update / bayesian_change_point_probability; hazard_rate
\* in thousandths
bayesian_change_point_probability(value, historical, hazard_rate) ==
    IF historical = <<>> THEN 0
    ELSE LET unlikelihood == PScale - Min(student_t_likelihood(value, historical), PScale)
             change_prob == (7 * unlikelihood * PScale + 3 * hazard_rate * PScale
                             + 5 * unlikelihood * hazard_rate) \div (10 * PScale)
         IN  Min(change_prob, PScale)

----------------------------------------------------------------------------
(***************************************************************************)
(* Regression detector (baseline.rs).                                      *)
(***************************************************************************)
\* ComparisonConfig: threshold in percent; confidence_level, cp_threshold
\* and hazard_rate in thousandths
default_threshold == 5
default_confidence_level == 950
default_cp_threshold == 800
default_hazard_rate == 100

DefaultConfig == [threshold |-> default_threshold,
                  confidence_level |-> default_confidence_level,
                  cp_threshold |-> default_cp_threshold,
                  hazard_rate |-> default_hazard_rate]

\* the Comparison built for a non-empty history
Comparison(current_mean, means, cfg) ==
    [current_mean |-> current_mean,
     baseline_count |-> Len(means),
     percentage_change |-> percentage_change(current_mean, means),
     z_score |-> z_score(current_mean, means),
     upper_bound |-> upper_bound(means, cfg.confidence_level),
     change_probability |->
         bayesian_change_point_probability(current_mean, means, cfg.hazard_rate)]

\* a bug variant of the tiered decision: |z| = 5 counts as extreme
is_regression_ge5(c, cfg) ==
    LET statistically_significant == ExceedsBound(c.current_mean, c.upper_bound)
        practically_significant == PctGt(c.percentage_change, cfg.threshold)
    IN  IF AbsGe(c.z_score, 5)
        THEN statistically_significant /\ practically_significant
        ELSE IF AbsGt(c.z_score, 2)
        THEN /\ statistically_significant /\ practically_significant
             /\ c.change_probability > cfg.cp_threshold
        ELSE FALSE

\* a bug variant of the tiered decision: extreme evidence alone decides
is_regression_extreme_only(c, cfg) ==
    LET statistically_significant == ExceedsBound(c.current_mean, c.upper_bound)
        practically_significant == PctGt(c.percentage_change, cfg.threshold)
    IN  IF AbsGt(c.z_score, 5)
        THEN statistically_significant
        ELSE IF AbsGt(c.z_score, 2)
        THEN /\ statistically_significant /\ practically_significant
             /\ c.change_probability > cfg.cp_threshold
        ELSE FALSE

\* the tiered decision `let is_regression = ...`
is_regression(c, cfg) ==
    LET statistically_significant == ExceedsBound(c.current_mean, c.upper_bound)
        practically_significant == PctGt(c.percentage_change, cfg.threshold)
    IN  IF AbsGt(c.z_score, 5)
        THEN statistically_significant /\ practically_significant
        ELSE IF AbsGt(c.z_score, 2)
        THEN /\ statistically_significant /\ practically_significant
             /\ c.change_probability > cfg.cp_threshold
        ELSE FALSE

\* detect_regression_with_cpd; `historical` is a sequence of BaselineData
detect_regression_with_cpd(current, historical, cfg) ==
    IF historical = <<>>
    THEN [comparison |-> None, is_regression |-> FALSE]
    ELSE LET means == [i \in 1..Len(historical) |-> historical[i].mean]
             c == Comparison(current.mean, means, cfg)
         IN  [comparison |-> Some(c), is_regression |-> is_regression(c, cfg)]

----------------------------------------------------------------------------
(***************************************************************************)
(* Store and orchestrator: one benchmark, run again and again.             *)
(***************************************************************************)
\* no measurement has been started
MeasIdle ==
    [pc |-> "idle", kind |-> "none", samples |-> 0, quiet |-> FALSE, monitor |-> FALSE,
     entry |-> "none", pin_env |-> None, pinned |-> None, cpu_core |-> None, data |-> 0, total_iterations |-> 0, sample_idx |-> 0, timer |-> FALSE,
     all_timings |-> <<>>, cpu_samples |-> <<>>, calls |-> <<>>, stderr |-> <<>>,
     result |-> None]

\* run_benchmarks_with_cores has not been called
OrchIdle ==
    [pc |-> "idle", parallel |-> FALSE, cores |-> <<>>, n |-> 0, lo |-> 1, i |-> 0,
     pending |-> 0, all_results |-> <<>>, all_comparisons |-> <<>>, failed |-> <<>>,
     handled |-> <<>>]

Init ==
    /\ clock \in StartClocks
    /\ dirExists = FALSE
    /\ runs = <<>>
    /\ saves = 0
    /\ verdicts = <<>>
    /\ ret = [op |-> "none"]
    /\ meas = MeasIdle
    /\ orch = OrchIdle
    /\ kids = <<>>
    /\ chan = [queue |-> <<>>, arrived |-> <<>>]
    /\ disk = <<>>

\* the wall clock advances by one second
Tick ==
    /\ \E s \in StartClocks : clock >= s /\ clock < s + MaxTick
    /\ clock' = clock + 1
    /\ UNCHANGED <<dirExists, runs, saves, verdicts, ret>>
    /\ UNCHANGED <<measureVars, runnerVars, machineVars>>

\* BaselineManager::save_baseline called directly
save_baseline(result, was_regression, fail) ==
    /\ fail = "none" => saves < MaxSaves
    /\ SaveEffect(result, was_regression, fail)
    /\ ret' = [op |-> "save_baseline", ok |-> (fail = "none")]
    /\ verdicts' = [o \in {runs'[f].timestamp : f \in DOMAIN runs'} \cap DOMAIN verdicts |->
                      verdicts[o]]
    /\ UNCHANGED <<clock, measureVars, runnerVars, machineVars>>

\* BaselineManager::load_recent_baselines called directly
LoadRecentBaselines(count) ==
    /\ ret' = [op |-> "load_recent_baselines", count |-> count,
               value |-> load_recent_baselines(dirExists, runs, count)]
    /\ UNCHANGED <<clock, dirExists, runs, saves, verdicts, measureVars, runnerVars, machineVars>>

\* BaselineManager::load_baseline called directly, on a store that holds no
\* legacy file
LoadBaseline ==
    /\ ret' = [op |-> "load_baseline", value |-> load_baseline(dirExists, runs, None)]
    /\ UNCHANGED <<clock, dirExists, runs, saves, verdicts, measureVars, runnerVars, machineVars>>

\* a bug variant of NewBaseline: the verdict defaults to regression
NewBaselineFlagged == [comparison |-> None, is_regression |-> TRUE]

\* the ComparisonResult of a run without comparison
NewBaseline == [comparison |-> None, is_regression |-> FALSE]

\* Ok(historical) of load_recent_baselines, or None for its Err
LoadWindow(window_size, load_fails) ==
    IF load_fails THEN None
    ELSE Some(load_recent_baselines(dirExists, runs, window_size))

\* a bug variant of Decide: a result whose history could not be loaded is
\* flagged
DecideLoadErrorFlagged(result, historical) ==
    IF historical.some /\ historical.value # <<>>
    THEN detect_regression_with_cpd(result, historical.value, DefaultConfig)
    ELSE IF historical.some THEN NewBaseline ELSE NewBaselineFlagged

\* the comparison the orchestrator makes for one result, given the window
Decide(result, historical) ==
    IF historical.some /\ historical.value # <<>>
    THEN detect_regression_with_cpd(result, historical.value, DefaultConfig)
    ELSE NewBaseline

\* a bug variant of SaveVerdict: the record is saved unflagged
SaveVerdictUnflagged(result, verdict, fail) ==
    /\ fail = "none" => saves < MaxSaves
    /\ SaveEffect(result, FALSE, fail)
    /\ verdicts' = IF fail = "none"
                   THEN [o \in {runs'[f].timestamp : f \in DOMAIN runs'}
                                \cap (DOMAIN verdicts \cup {saves + 1}) |->
                           IF o = saves + 1 THEN verdict ELSE verdicts[o]]
                   ELSE verdicts
    /\ UNCHANGED clock

\* the store and bookkeeping effect of the orchestrator's save
SaveVerdict(result, verdict, fail) ==
    /\ fail = "none" => saves < MaxSaves
    /\ SaveEffect(result, verdict, fail)
    /\ verdicts' = IF fail = "none"
                   THEN [o \in {runs'[f].timestamp : f \in DOMAIN runs'}
                                \cap (DOMAIN verdicts \cup {saves + 1}) |->
                           IF o = saves + 1 THEN verdict ELSE verdicts[o]]
                   ELSE verdicts
    /\ UNCHANGED clock

\* the warnings printed to stderr while one result is processed: only a
\* failed save_baseline is reported, a failed load_recent_baselines is not
Warnings(load_fails, fail) ==
    IF fail # "none" THEN <<"Warning: Failed to save baseline">> ELSE <<>>

\* process_single_result_baseline (cargo-simplebench): called for every
\* Complete message that carries a result; `store` tells whether
\* BaselineManager::new() succeeded
process_single_result_baseline(result, window_size, store, load_fails, fail) ==
    IF store
    THEN \E historical \in {LoadWindow(window_size, load_fails)} :
         \E value \in {Decide(result, historical)} :
            /\ SaveVerdict(result, value.is_regression, fail)
            /\ ret' = [op |-> "process_single_result_baseline", store |-> TRUE,
                       historical |-> historical, value |-> value,
                       saved |-> (fail = "none"),
                       warnings |-> Warnings(load_fails, fail)]
    ELSE /\ ret' = [op |-> "process_single_result_baseline", store |-> FALSE,
                    historical |-> None, value |-> NewBaseline, saved |-> FALSE,
                    warnings |-> <<>>]
         /\ UNCHANGED <<clock, dirExists, runs, saves, verdicts>>

\* one iteration of the benchmark loop of run_and_stream_benchmarks
\* (simplebench-runtime); `value` is the ComparisonResult it pushes, and
\* nothing is pushed when the history could not be loaded
run_and_stream_benchmarks(result, window_size, store, load_fails, fail) ==
    /\ UNCHANGED <<measureVars, runnerVars, machineVars>>
    /\ IF store
       THEN \E historical \in {LoadWindow(window_size, load_fails)} :
            \E value \in {Decide(result, historical)} :
               /\ SaveVerdict(result, value.is_regression, fail)
               /\ ret' = [op |-> "run_and_stream_benchmarks", store |-> TRUE,
                          historical |-> historical, value |-> value,
                          pushed |-> historical.some, saved |-> (fail = "none"),
                          warnings |-> Warnings(load_fails, fail)]
       ELSE /\ ret' = [op |-> "run_and_stream_benchmarks", store |-> FALSE,
                       historical |-> None, value |-> NewBaseline,
                       pushed |-> FALSE, saved |-> FALSE, warnings |-> <<>>]
            /\ UNCHANGED <<clock, dirExists, runs, saves, verdicts>>

\* the inputs of one orchestrated run: without a store nothing is loaded
\* or saved, so the I/O outcomes are not inputs then; the window size has
\* no effect when the load fails
RunInputs ==
    [result : BenchResults, window_size : 0..MaxCount, store : {TRUE},
     load_fails : {FALSE}, fail : FailPoints]
    \cup [result : BenchResults, window_size : {0}, store : {TRUE},
          load_fails : {TRUE}, fail : FailPoints]
    \cup [result : BenchResults, window_size : {0}, store : {FALSE},
          load_fails : {FALSE}, fail : {"none"}]

\* the store used through its API
Next ==
    \/ Tick
    \/ \E r \in BenchResults, w \in BOOLEAN, f \in FailPoints : save_baseline(r, w, f)
    \/ \E c \in 0..MaxCount : LoadRecentBaselines(c)
    \/ LoadBaseline

Spec == Init /\ [][Next]_vars

\* process_single_result_baseline applied to one result on its own
ProcessResult(i) ==
    /\ process_single_result_baseline(i.result, i.window_size, i.store, i.load_fails, i.fail)
    /\ UNCHANGED <<measureVars, runnerVars, machineVars>>

\* the drain loop of run_benchmarks_with_cores receives a Complete message
\* that carries an error: the failure is printed and nothing else is done
FailedBenchmark ==
    /\ ret' = [op |-> "failed_benchmark"]
    /\ UNCHANGED <<clock, dirExists, runs, saves, verdicts, measureVars, runnerVars,
                   machineVars>>

\* the wall clock advances between two orchestrated runs
RunTick ==
    /\ \E s \in StartClocks : clock < s + MaxRunTick
    /\ Tick

\* the orchestrators running one benchmark again and again
NextOrchestrator ==
    \/ RunTick
    \/ \E i \in RunInputs : ProcessResult(i)
    \/ FailedBenchmark
    \/ \E i \in RunInputs :
          run_and_stream_benchmarks(i.result, i.window_size, i.store, i.load_fails, i.fail)

SpecOrchestrator == Init /\ [][NextOrchestrator]_vars

----------------------------------------------------------------------------
(***************************************************************************)
(* The regression detector applied to bounded inputs.                      *)
(***************************************************************************)
\* longest history handed to the detector
MaxHist == 3
\* largest mean (ns) of the small histories
MaxMean == 3

\* means of a history tightly clustered at 1,000,000 ns
ClusterMeans == {999999, 1000000, 1000001}
\* current means compared against a clustered history
ClusterCurrents == {999990, 1000000, 1020000, 2000000}

Histories(means) ==
    UNION {[1..n -> [mean : means, was_regression : {FALSE}, timestamp : {0}]] :
             n \in 1..MaxHist}

Configs == [threshold : {-5, 5, 50}, confidence_level : {800, 900, 950, 990},
            cp_threshold : {500, 800}, hazard_rate : {100, 500}]

DetectInputs ==
    [current : [mean : 0..(MaxMean + 2)], historical : Histories(0..MaxMean), cfg : Configs]
    \cup [current : [mean : ClusterCurrents], historical : Histories(ClusterMeans),
          cfg : Configs]

\* detect_regression_with_cpd called on one input
DetectRegression(in) ==
    /\ ret' = [op |-> "detect_regression_with_cpd", current |-> in.current,
               historical |-> in.historical, cfg |-> in.cfg,
               value |-> detect_regression_with_cpd(in.current, in.historical, in.cfg)]
    /\ UNCHANGED <<clock, dirExists, runs, saves, verdicts, measureVars, runnerVars, machineVars>>

NextDetect == ret.op = "none" /\ \E in \in DetectInputs : DetectRegression(in)

SpecDetect == Init /\ [][NextDetect]_vars

----------------------------------------------------------------------------
(***************************************************************************)
(* The measurement engine (simplebench-runtime/src/measurement.rs): one    *)
(* benchmark measured inside a runner process.  `calls` is the log of the  *)
(* invocations of the user's setup and benchmark closures, `stderr` the    *)
(* progress lines the process has printed.                                 *)
(***************************************************************************)
\* largest configured sample count
MaxSamples == 3
\* most iterations the warmup loop makes before its time budget is used up
MaxWarmup == 2

\* elapsed times (ns) one timed invocation may take
Durations == {1, 2}
\* the four measurement entry points
MeasureKinds == {"simple", "setup", "setup_each", "setup_each_ref"}

\* validate_measurement_params: "Ok" or the error
validate_measurement_params(samples) ==
    IF samples = 0 THEN "Samples must be greater than 0"
    ELSE IF samples > 1000000 THEN "Samples should not exceed 1,000,000"
    ELSE "Ok"

\* emit_progress: prints the envelope unless SIMPLEBENCH_QUIET is set
emit_progress(m, msg) ==
    IF m.quiet THEN m ELSE [m EXCEPT !.stderr = Append(@, msg)]

\* number of times the setup closure has been called
SetupCount(m) == Cardinality({i \in DOMAIN m.calls : m.calls[i].fn = "setup"})

\* setup(): the k-th call produces the data k; `timed` tells whether the
\* call is made while a sample's timer runs
CallSetup(m, phase) ==
    [m EXCEPT !.calls = Append(@, [fn |-> "setup", phase |-> phase,
                                   data |-> SetupCount(m) + 1, timed |-> m.timer])]

\* bench(data), bench(&data) or func()
CallBench(m, phase, data) ==
    [m EXCEPT !.calls = Append(@, [fn |-> "bench", phase |-> phase, data |-> data,
                                   timed |-> m.timer])]

\* let start = Instant::now(): a sample is timed, a warmup iteration is not
StartTimer(m, phase) == IF phase = "sample" THEN [m EXCEPT !.timer = TRUE] ELSE m

\* a bug variant of SetupEach: the timer is started before setup()
SetupEachTimed(m, phase) == CallSetup(StartTimer(m, phase), phase)

\* let data = setup() of the setup_each variants, followed for a sample by
\* the start of its timer
SetupEach(m, phase) == StartTimer(CallSetup(m, phase), phase)

\* a bug variant of Workload: setup-once data is rebuilt for every call
WorkloadFreshData(m, phase) ==
    IF m.kind = "simple" THEN CallBench(StartTimer(m, phase), phase, 0)
    ELSE CallBench(SetupEach(m, phase), phase, SetupCount(m) + 1)

\* one invocation of the workload: func() for measure_simple, bench(&data)
\* with the data of the one setup call for measure_with_setup, setup() and
\* then bench on its fresh data for the setup_each variants
Workload(m, phase) ==
    IF m.kind = "simple" THEN CallBench(StartTimer(m, phase), phase, 0)
    ELSE IF m.kind = "setup" THEN CallBench(StartTimer(m, phase), phase, m.data)
    ELSE CallBench(SetupEach(m, phase), phase, SetupCount(m) + 1)

\* a bug variant of WarmupBody: the warmup call is recorded as a sample
WarmupBodyTimed(m, report) ==
    LET m1 == [Workload(m, "warmup") EXCEPT !.total_iterations = @ + 1,
                                            !.all_timings = Append(@, 1)]
    IN  IF report THEN emit_progress(m1, [phase |-> "warmup"]) ELSE m1

\* the body of the loop of warmup_closure, warmup_with_setup and
\* warmup_with_setup_ref; `report` tells whether 100 ms have passed since
\* the last report
WarmupBody(m, report) ==
    LET m1 == [Workload(m, "warmup") EXCEPT !.total_iterations = @ + 1]
    IN  IF report THEN emit_progress(m1, [phase |-> "warmup"]) ELSE m1

\* (samples / 100).max(1)
report_interval(samples) == IF samples \div 100 > 1 THEN samples \div 100 ELSE 1

\* the CpuSnapshot of one sample: the frequency is None without a monitor
CpuSnapshot(m) == [frequency_khz |-> IF m.monitor THEN Some(1) ELSE None]

\* a bug variant of SampleBody: the progress event is emitted after the
\* index has moved on to the sample count
SampleBodyReportsTotal(m, elapsed) ==
    LET m1 == IF m.sample_idx % report_interval(m.samples) = 0
              THEN emit_progress(m, [phase |-> "samples", current |-> m.samples,
                                     total |-> m.samples])
              ELSE m
    IN  [Workload(m1, "sample") EXCEPT !.timer = FALSE,
                                       !.all_timings = Append(@, elapsed),
                                       !.cpu_samples = Append(@, CpuSnapshot(m)),
                                       !.sample_idx = @ + 1]

\* the body of the sampling loop of measure_closure, measure_with_setup_each
\* and measure_with_setup_each_ref for sample_idx
SampleBody(m, elapsed) ==
    LET m1 == IF m.sample_idx % report_interval(m.samples) = 0
              THEN emit_progress(m, [phase |-> "samples", current |-> m.sample_idx,
                                     total |-> m.samples])
              ELSE m
    IN  [Workload(m1, "sample") EXCEPT !.timer = FALSE,
                                       !.all_timings = Append(@, elapsed),
                                       !.cpu_samples = Append(@, CpuSnapshot(m)),
                                       !.sample_idx = @ + 1]

\* calculate_percentiles: the division by the length (and the index
\* len - 1) panic on an empty list; sorted_timings is indexed from 0
calculate_percentiles(timings) ==
    LET len == Len(timings)
        sorted_timings == SortTimings(timings)
        at(idx) == sorted_timings[Min(idx, len - 1) + 1]
    IN  IF len = 0 THEN [panic |-> TRUE]
        ELSE [panic |-> FALSE,
              p50 |-> at((len * 50) \div 100),
              p90 |-> at((len * 90) \div 100),
              p99 |-> at((len * 99) \div 100),
              mean |-> SeqSum(timings) \div len]

\* the values of SIMPLEBENCH_PIN_CORE: unset, the decimal form of a core
\* (what the orchestrator passes) or text that is not a number
PinSettings == {None, Some(Decimal(1)), Some(Decimal(2)), Some(<<Dash, Digit(1)>>)}
\* the entry points of a runner process that measure benchmarks
EntryPoints == {"run_single_benchmark_json", "run_and_stream_benchmarks"}

\* str::parse::<usize> on the characters of a decimal number
RECURSIVE ParseDigits(_, _)
ParseDigits(s, acc) ==
    IF s = <<>> THEN Some(acc)
    ELSE IF Head(s) \in {Digit(d) : d \in 0..9}
         THEN ParseDigits(Tail(s), 10 * acc + (Head(s) - Digit(0)))
         ELSE None

\* std::env::var(..).ok().and_then(|s| s.parse().ok())
parse_env(env) ==
    IF env.some /\ env.value # <<>> THEN ParseDigits(env.value, 0) ELSE None

\* Option::unwrap_or
unwrap_or(option, default) == IF option.some THEN option.value ELSE default

\* get_pinned_core (measurement.rs): the core handed to CpuMonitor::new
get_pinned_core(env) == unwrap_or(parse_env(env), 0)

\* the core the entry point asks set_thread_affinity for: pin_core of
\* run_single_benchmark_json, core 0 in run_and_stream_benchmarks
affinity_core(entry, env) ==
    IF entry = "run_single_benchmark_json" THEN unwrap_or(parse_env(env), 1) ELSE 0

\* the runner's entry point pins its thread (a failure of
\* set_thread_affinity is only reported) and the benchmark's run function
\* enters measure_simple, measure_with_setup, measure_with_setup_each or
\* measure_with_setup_each_ref with a configuration; only
\* measure_with_setup calls setup() here
Measure(kind, samples, quiet, monitor, entry, env, affinity_ok) ==
    /\ meas.pc = "idle"
    /\ LET m0 == [MeasIdle EXCEPT !.pc = "warmup", !.kind = kind, !.samples = samples,
                                  !.quiet = quiet, !.monitor = monitor,
                                  !.entry = entry, !.pin_env = env,
                                  !.pinned = IF affinity_ok
                                             THEN Some(affinity_core(entry, env))
                                             ELSE None]
       IN  meas' = IF kind = "setup"
                   THEN [CallSetup(m0, "setup") EXCEPT !.data = 1]
                   ELSE m0
    /\ UNCHANGED <<storeVars, runnerVars, machineVars>>

\* one iteration of the warmup loop: start.elapsed() < duration held
WarmupIteration(report) ==
    /\ meas.pc = "warmup"
    /\ meas.total_iterations < MaxWarmup
    /\ meas' = WarmupBody(meas, report)
    /\ UNCHANGED <<storeVars, runnerVars, machineVars>>

\* the warmup loop ends: start.elapsed() >= duration; the CpuMonitor of the
\* sampling loop is created for get_pinned_core()
WarmupDone ==
    /\ meas.pc = "warmup"
    /\ meas' = [meas EXCEPT !.pc = "sampling",
                            !.cpu_core = Some(get_pinned_core(meas.pin_env))]
    /\ UNCHANGED <<storeVars, runnerVars, machineVars>>

\* one iteration of the sampling loop
Sample(elapsed) ==
    /\ meas.pc = "sampling"
    /\ meas.sample_idx < meas.samples
    /\ meas' = SampleBody(meas, elapsed)
    /\ UNCHANGED <<storeVars, runnerVars, machineVars>>

\* the terminal progress event
Complete(m) == emit_progress(m, [phase |-> "complete"])

\* after the sampling loop: the Complete event, calculate_percentiles and
\* the BenchResult
Finish ==
    /\ meas.pc = "sampling"
    /\ meas.sample_idx = meas.samples
    /\ LET m1 == Complete(meas)
           percentiles == calculate_percentiles(m1.all_timings)
       IN  meas' = IF percentiles.panic
                   THEN [m1 EXCEPT !.pc = "panicked"]
                   ELSE [m1 EXCEPT !.pc = "done",
                            !.result = Some([samples |-> m1.samples,
                                             percentiles |-> percentiles,
                                             all_timings |-> m1.all_timings,
                                             cpu_samples |-> m1.cpu_samples,
                                             warmup_iterations |-> m1.total_iterations])]
    /\ UNCHANGED <<storeVars, runnerVars, machineVars>>

\* one benchmark measured once, for every configuration
NextMeasure ==
    \/ \E kind \in MeasureKinds, samples \in 0..MaxSamples, quiet \in BOOLEAN,
          monitor \in BOOLEAN, entry \in EntryPoints, env \in PinSettings,
          affinity_ok \in BOOLEAN :
             Measure(kind, samples, quiet, monitor, entry, env, affinity_ok)
    \/ \E report \in BOOLEAN : WarmupIteration(report)
    \/ WarmupDone
    \/ \E elapsed \in Durations : Sample(elapsed)
    \/ Finish

SpecMeasure == Init /\ [][NextMeasure]_vars

----------------------------------------------------------------------------
(***************************************************************************)
(* The execution orchestrator (cargo-simplebench/src/main.rs,              *)
(* run_benchmarks_with_cores): batches of runner processes, one per        *)
(* benchmark, each with a stdout reader thread and a stderr reader thread  *)
(* that feed one mpsc channel per batch.  Benchmarks are numbered          *)
(* 1..MaxBenchmarks in list order.                                         *)
(***************************************************************************)
\* number of benchmarks handed to run_benchmarks_with_cores
MaxBenchmarks == 3
\* capacity of an OS pipe, in writes (lines of stderr, chunks of stdout)
PipeCap == 1

\* the benchmark whose baseline directory is the modelled store
StoreBench == 1

\* /sys/devices/system/cpu as detect_physical_cores may find it: absent,
\* unreadable, or one thread_siblings_list per cpuN ("" when unreadable)
Topologies ==
    { [sysfs |-> "absent", siblings |-> <<>>],
      [sysfs |-> "unreadable", siblings |-> <<>>],
      [sysfs |-> "present", siblings |-> <<"0">>],
      [sysfs |-> "present", siblings |-> <<"0", "1", "2">>],
      [sysfs |-> "present", siblings |-> <<"0", "", "2">>],
      [sysfs |-> "present", siblings |-> <<"0,2", "1,3", "0,2", "1,3">>] }

\* --jobs: absent or a number
JobsOptions == {None, Some(0), Some(1), Some(2)}

\* the loop of detect_physical_cores over the cpuN directories in
\* ascending N (the final sort leaves this order as it is)
RECURSIVE DetectWalk(_, _, _, _)
DetectWalk(siblings, cpu_num, seen_siblings, usable_cores) ==
    IF cpu_num >= Len(siblings) THEN usable_cores
    ELSE IF cpu_num = 0
         THEN DetectWalk(siblings, cpu_num + 1, seen_siblings, usable_cores)
    ELSE IF siblings[cpu_num + 1] = ""
         THEN DetectWalk(siblings, cpu_num + 1, seen_siblings, usable_cores)
    ELSE IF siblings[cpu_num + 1] \in seen_siblings
         THEN DetectWalk(siblings, cpu_num + 1, seen_siblings, usable_cores)
    ELSE DetectWalk(siblings, cpu_num + 1, seen_siblings \cup {siblings[cpu_num + 1]},
                    Append(usable_cores, cpu_num))

\* detect_physical_cores: Ok(cores) as Some, Err as None
detect_physical_cores(topology) ==
    IF topology.sysfs = "absent" THEN Some(<<1>>)
    ELSE IF topology.sysfs = "unreadable" THEN None
    ELSE Some(DetectWalk(topology.siblings, 0, {}, <<>>))

\* topology::get_usable_cores
get_usable_cores(topology) ==
    LET detected == detect_physical_cores(topology)
    IN  IF detected.some /\ detected.value # <<>> THEN detected.value ELSE <<1>>

\* the core list of run_benchmarks_sequential (vec![1]) and of
\* run_benchmarks_parallel (the usable cores, cut to --jobs, never empty)
CoresFor(parallel, jobs, topology) ==
    IF ~parallel THEN <<1>>
    ELSE LET available == get_usable_cores(topology)
             cores == IF jobs.some
                      THEN SubSeq(available, 1, Min(jobs.value, Len(available)))
                      ELSE available
         IN  IF cores = <<>> THEN <<1>> ELSE cores

\* what a runner process does: its writes in order ("progress": a progress
\* envelope on stderr, "diag": another stderr line, "bad": a stderr line
\* that is not UTF-8, "out": a chunk of stdout), its exit status and
\* whether its whole stdout is a BenchResult
Script(writes, status, valid) == [writes |-> writes, status |-> status, valid |-> valid]

\* a result too large for the stdout pipe
OutBurst == [i \in 1..(PipeCap + 1) |-> "out"]

\* the behaviours of the runner of benchmark b: a run that succeeds; for
\* an odd b also one with a large result and one that prints a non-UTF-8
\* line before its progress; for an even b also a panic (non-zero exit)
\* and a malformed result
ScriptsOf(b) ==
    {Script(<<"progress", "out">>, 0, TRUE)}
    \cup (IF b % 2 = 1
          THEN {Script(<<"progress">> \o OutBurst, 0, TRUE),
                Script(<<"bad", "progress", "out">>, 0, TRUE)}
          ELSE {Script(<<"diag">>, 101, FALSE),
                Script(<<"out">>, 0, FALSE)})

\* a benchmark whose runner has not been spawned
KidNone ==
    [proc |-> "none", core |-> 0, writes |-> <<>>, status |-> 0, valid |-> FALSE,
     outPipe |-> 0, errPipe |-> <<>>, errOpen |-> TRUE, stdout_handle |-> "none", stdout_content |-> 0,
     stderr_thread |-> "none", stderr_lines |-> 0]

\* mpsc::channel(): the queue, and every message sent on it so far
ChanEmpty == [queue |-> <<>>, arrived |-> <<>>]

\* tx.send(msg)
Send(ch, msg) == [queue |-> Append(ch.queue, msg), arrived |-> Append(ch.arrived, msg)]

\* a bug variant of recv: the newest message is taken first
recv_newest(queue) ==
    [msg |-> queue[Len(queue)], rest |-> SubSeq(queue, 1, Len(queue) - 1)]

\* rx.recv() on a non-empty queue
recv(queue) == [msg |-> Head(queue), rest |-> Tail(queue)]

\* batch.len() of the chunk that starts at benchmark lo
BatchLen(o, lo) == Min(Len(o.cores), o.n - lo + 1)

\* a bug variant of PinCore: every runner of a batch gets the first core
PinCoreFirst(cores, i) == cores[1]

\* let core = cores[i], for the i-th (from 0) benchmark of a batch
PinCore(cores, i) == cores[i + 1]

\* run_benchmarks_parallel or run_benchmarks_sequential picks the cores and
\* calls run_benchmarks_with_cores, which sets up the first batch
Start(parallel, jobs, topology) ==
    /\ orch.pc = "idle"
    /\ LET o == [OrchIdle EXCEPT !.parallel = parallel,
                                 !.cores = CoresFor(parallel, jobs, topology),
                                 !.n = MaxBenchmarks]
       IN  orch' = [o EXCEPT !.pc = "spawn", !.pending = BatchLen(o, 1)]
    /\ kids' = [b \in 1..MaxBenchmarks |-> KidNone]
    /\ chan' = ChanEmpty
    /\ UNCHANGED <<storeVars, measureVars, machineVars>>

\* one iteration of the spawn loop, for benchmark b with the behaviour
\* `script`: Command::spawn() and the two reader threads, or the panic of
\* expect("Failed to spawn runner"); drop(tx) follows the last iteration
Spawn(b, script, spawn_fails) ==
    /\ orch.pc = "spawn"
    /\ b = orch.lo + orch.i
    /\ IF spawn_fails
       THEN /\ orch' = [orch EXCEPT !.pc = "panicked"]
            /\ UNCHANGED kids
       ELSE /\ kids' = [kids EXCEPT ![b] =
                          [KidNone EXCEPT !.proc = "running",
                                          !.core = PinCore(orch.cores, orch.i),
                                          !.writes = script.writes,
                                          !.status = script.status,
                                          !.valid = script.valid,
                                          !.stdout_handle = "reading",
                                          !.stderr_thread = "reading"]]
            /\ orch' = [orch EXCEPT !.i = @ + 1,
                                    !.pc = IF orch.i + 1 = BatchLen(orch, orch.lo)
                                           THEN "drain" ELSE "spawn"]
    /\ UNCHANGED <<chan, storeVars, measureVars, machineVars>>

\* the orchestrator process is alive (its threads die with it)
Alive == orch.pc \in {"spawn", "drain"}

\* the runner of benchmark b makes its next write; a write blocks while
\* the pipe is full, and eprintln! panics (exit status 101) when the read
\* end of stderr has been closed
ChildWrite(b) ==
    /\ Alive
    /\ kids[b].proc = "running"
    /\ kids[b].writes # <<>>
    /\ IF Head(kids[b].writes) = "out"
       THEN /\ kids[b].outPipe < PipeCap
            /\ kids' = [kids EXCEPT ![b].outPipe = @ + 1, ![b].writes = Tail(@)]
       ELSE IF ~kids[b].errOpen
       THEN kids' = [kids EXCEPT ![b].writes = <<>>, ![b].status = 101]
       ELSE /\ Len(kids[b].errPipe) < PipeCap
            /\ kids' = [kids EXCEPT ![b].errPipe = Append(@, Head(kids[b].writes)),
                                    ![b].writes = Tail(@)]
    /\ UNCHANGED <<orch, chan, storeVars, measureVars, machineVars>>

\* the runner of benchmark b exits, which closes its ends of both pipes
ChildExit(b) ==
    /\ Alive
    /\ kids[b].proc = "running"
    /\ kids[b].writes = <<>>
    /\ kids' = [kids EXCEPT ![b].proc = "exited"]
    /\ UNCHANGED <<orch, chan, storeVars, measureVars, machineVars>>

\* a bug variant of StdoutReaderRuns: stdout is read only after stderr
\* reached its end
StdoutReaderAfterStderr(kid) ==
    kid.stdout_handle = "reading" /\ kid.stderr_thread # "reading"

\* the stdout reader is a thread of its own, spawned before stderr is read
StdoutReaderRuns(kid) == kid.stdout_handle = "reading"

\* the stdout thread: read_to_string takes a chunk, or sees the end of file
StdoutRead(b) ==
    /\ Alive
    /\ StdoutReaderRuns(kids[b])
    /\ IF kids[b].outPipe > 0
       THEN kids' = [kids EXCEPT ![b].outPipe = @ - 1, ![b].stdout_content = @ + 1]
       ELSE /\ kids[b].proc = "exited"
            /\ kids' = [kids EXCEPT ![b].stdout_handle = "done"]
    /\ UNCHANGED <<orch, chan, storeVars, measureVars, machineVars>>

\* the stderr thread: the next line is sent as Progress or kept as a
\* diagnostic line; at the end of file, or at a line that cannot be
\* decoded (map_while(Result::ok)), the loop is left and the reader dropped
StderrRead(b) ==
    /\ Alive
    /\ kids[b].stderr_thread = "reading"
    /\ IF kids[b].errPipe # <<>>
       THEN IF Head(kids[b].errPipe) = "progress"
            THEN /\ chan' = Send(chan, [type |-> "Progress", bench |-> b])
                 /\ kids' = [kids EXCEPT ![b].errPipe = Tail(@)]
            ELSE IF Head(kids[b].errPipe) = "bad"
            THEN /\ kids' = [kids EXCEPT ![b].errPipe = <<>>, ![b].errOpen = FALSE,
                                         ![b].stderr_thread = "join"]
                 /\ UNCHANGED chan
            ELSE /\ kids' = [kids EXCEPT ![b].errPipe = Tail(@), ![b].stderr_lines = @ + 1]
                 /\ UNCHANGED chan
       ELSE /\ kids[b].proc = "exited"
            /\ kids' = [kids EXCEPT ![b].stderr_thread = "join", ![b].errOpen = FALSE]
            /\ UNCHANGED chan
    /\ UNCHANGED <<orch, storeVars, measureVars, machineVars>>

\* a bug variant of ChildResult: the stdout is not parsed
ChildResultUnparsed(kid) == kid.status = 0

\* the result of a runner: Ok when it exited with success and its stdout
\* parses as a BenchResult
ChildResult(kid) == kid.status = 0 /\ kid.valid /\ kid.stdout_content > 0

\* the stderr thread after its loop: stdout_handle.join(), child.wait() and
\* the Complete message
ThreadComplete(b) ==
    /\ Alive
    /\ kids[b].stderr_thread = "join"
    /\ kids[b].stdout_handle = "done"
    /\ kids[b].proc = "exited"
    /\ chan' = Send(chan, [type |-> "Complete", bench |-> b, core |-> kids[b].core,
                           ok |-> ChildResult(kids[b]),
                           stderr_lines |-> kids[b].stderr_lines])
    /\ kids' = [kids EXCEPT ![b].stderr_thread = "done"]
    /\ UNCHANGED <<orch, storeVars, measureVars, machineVars>>

\* a bug variant of PendingAfter: every message counts as a completion
PendingAfterAny(pending, msg) == pending - 1

\* pending -= 1 in the Complete arm only
PendingAfter(pending, msg) == IF msg.type = "Complete" THEN pending - 1 ELSE pending

\* the arms of the match on a received message: a Progress updates the
\* display; a Complete with a result is printed, compared, persisted and
\* pushed; a Complete with an error is reported with its diagnostic lines
HandleMessage(o, msg) ==
    LET o1 == [o EXCEPT !.handled = Append(@, msg),
                        !.pending = PendingAfter(@, msg)]
    IN  IF msg.type = "Progress" THEN o1
        ELSE IF msg.ok
        THEN [o1 EXCEPT !.all_results = Append(@, msg.bench),
                        !.all_comparisons = Append(@, msg.bench)]
        ELSE [o1 EXCEPT !.failed = Append(@, msg.bench)]

\* the drain loop is left: the next chunk gets its channel and its pending
\* count, or Ok((all_results, all_comparisons)) is returned
NextBatch(o) ==
    LET lo == o.lo + BatchLen(o, o.lo)
    IN  IF lo > o.n THEN [o EXCEPT !.pc = "done"]
        ELSE [o EXCEPT !.pc = "spawn", !.lo = lo, !.i = 0, !.handled = <<>>,
                       !.pending = BatchLen(o, lo)]

\* every sender of the channel has been dropped
SendersDropped ==
    \A b \in DOMAIN kids :
        kids[b].proc # "none" => kids[b].stderr_thread = "done"

\* the result a runner reports for the stored benchmark
ReportedResult == [mean |-> 10, name |-> <<"v">>, module |-> <<"g">>, all_timings |-> <<10>>]

\* one iteration of `while pending > 0`: rx.recv() and the match on it;
\* process_single_result_baseline acts on the store for the benchmark
\* whose directory is modelled
Recv ==
    /\ orch.pc = "drain"
    /\ chan.queue # <<>> \/ SendersDropped
    /\ IF chan.queue = <<>>
       THEN /\ orch' = NextBatch(orch)
            /\ chan' = ChanEmpty
            /\ UNCHANGED storeVars
       ELSE \E r \in {recv(chan.queue)} :
            \E o \in {HandleMessage(orch, r.msg)} :
               /\ orch' = IF o.pending = 0 THEN NextBatch(o) ELSE o
               /\ chan' = IF o.pending = 0 THEN ChanEmpty
                          ELSE [chan EXCEPT !.queue = r.rest]
               /\ IF r.msg.type = "Complete" /\ r.msg.ok /\ r.msg.bench = StoreBench
                  THEN process_single_result_baseline(ReportedResult, MaxCount, TRUE,
                                                      FALSE, "none")
                  ELSE UNCHANGED storeVars
    /\ UNCHANGED <<kids, measureVars, machineVars>>

\* one run of the orchestrator over MaxBenchmarks benchmarks
NextRunner ==
    \/ \E parallel \in BOOLEAN, jobs \in JobsOptions, topology \in Topologies :
          Start(parallel, jobs, topology)
    \/ \E b \in 1..MaxBenchmarks : \E script \in ScriptsOf(b), spawn_fails \in BOOLEAN :
          Spawn(b, script, spawn_fails)
    \/ \E b \in 1..MaxBenchmarks : ChildWrite(b)
    \/ \E b \in 1..MaxBenchmarks : ChildExit(b)
    \/ \E b \in 1..MaxBenchmarks : StdoutRead(b)
    \/ \E b \in 1..MaxBenchmarks : StderrRead(b)
    \/ \E b \in 1..MaxBenchmarks : ThreadComplete(b)
    \/ Recv

SpecRunner == Init /\ [][NextRunner]_vars

\* the same run under fair scheduling: every runner process keeps making
\* progress until it has exited, every reader thread and the orchestrator
\* run whenever they are not blocked
RunnerFairness ==
    /\ \A b \in 1..MaxBenchmarks :
          /\ WF_vars(ChildWrite(b))
          /\ WF_vars(ChildExit(b))
          /\ WF_vars(StdoutRead(b))
          /\ WF_vars(StderrRead(b))
          /\ WF_vars(ThreadComplete(b))
          /\ WF_vars(\E script \in ScriptsOf(b), spawn_fails \in BOOLEAN :
                        Spawn(b, script, spawn_fails))
    /\ WF_vars(Recv)

SpecRunnerLive == Init /\ [][NextRunner]_vars /\ RunnerFairness

----------------------------------------------------------------------------
(***************************************************************************)
(* bayesian_change_point_probability (changepoint.rs) applied to bounded   *)
(* histories under several hazard rates.                                   *)
(***************************************************************************)
\* hazard rates (prior probabilities of a change point), in thousandths
HazardRates == {0, 50, 100, 300, 500, 1000}

\* the histories of means handed to the detector, the empty one included
MeanLists == UNION {[1..n -> 0..MaxMean] : n \in 0..MaxHist}

\* bayesian_change_point_probability called for one observation and one
\* history under each of the hazard rates
ChangePointProbability(new_value, historical) ==
    /\ ret' = [op |-> "bayesian_change_point_probability", new_value |-> new_value,
               historical |-> historical,
               value |-> [hazard_rate \in HazardRates |->
                            bayesian_change_point_probability(new_value, historical,
                                                              hazard_rate)]]
    /\ UNCHANGED <<clock, dirExists, runs, saves, verdicts, measureVars, runnerVars,
                   machineVars>>

NextChangePoint ==
    /\ ret.op = "none"
    /\ \E new_value \in 0..(MaxMean + 2), historical \in MeanLists :
          ChangePointProbability(new_value, historical)

SpecChangePoint == Init /\ [][NextChangePoint]_vars

----------------------------------------------------------------------------
(***************************************************************************)
(* calculate_statistics (lib.rs) and BaselineData::from_bench_result       *)
(* (baseline.rs) applied to bounded sample lists.                          *)
(***************************************************************************)
\* longest sample list
MaxStatSamples == 11

\* the list of a ones, b twos, c threes and d fours (ns), ascending
Ramp(a, b, c, d) ==
    [i \in 1..(a + b + c + d) |->
        IF i <= a THEN 1 ELSE IF i <= a + b THEN 2 ELSE IF i <= a + b + c THEN 3 ELSE 4]

\* a list with its first k elements moved to its end
Rotate(s, k) == SubSeq(s, k + 1, Len(s)) \o SubSeq(s, 1, k)

\* the sample lists: every multiset of at most MaxStatSamples timings, in
\* ascending order, in descending order and in every rotation of the
\* ascending order; the empty list is one of them
SampleLists ==
    LET Ramps == {Ramp(n[1], n[2], n[3], n[4]) :
                     n \in {m \in (0..MaxStatSamples) \X (0..MaxStatSamples)
                                    \X (0..MaxStatSamples) \X (0..MaxStatSamples) :
                               m[1] + m[2] + m[3] + m[4] <= MaxStatSamples}}
    IN  {Reverse(s) : s \in Ramps}
        \cup UNION {{Rotate(s, k) : k \in 0..Len(s)} : s \in Ramps}

\* calculate_statistics called on one list of raw samples
CalculateStatistics(samples) ==
    /\ ret' = [op |-> "calculate_statistics", samples |-> samples,
               value |-> calculate_statistics(samples)]
    /\ UNCHANGED <<clock, dirExists, runs, saves, verdicts, measureVars, runnerVars,
                   machineVars>>

\* BaselineData::from_bench_result called on the BenchResult of a
\* measurement that took these timings
FromBenchResult(timings, was_regression) ==
    /\ ret' = [op |-> "from_bench_result", timings |-> timings,
               value |-> from_bench_result(
                            [mean |-> calculate_percentiles(timings).mean,
                             name |-> <<"v">>, module |-> <<"g">>,
                             all_timings |-> timings], was_regression, saves + 1)]
    /\ UNCHANGED <<clock, dirExists, runs, saves, verdicts, measureVars, runnerVars,
                   machineVars>>

NextStatistics ==
    /\ ret.op = "none"
    /\ \/ \E samples \in SampleLists : CalculateStatistics(samples)
       \/ \E timings \in SampleLists \ {<<>>}, was_regression \in BOOLEAN :
             FromBenchResult(timings, was_regression)

SpecStatistics == Init /\ [][NextStatistics]_vars

----------------------------------------------------------------------------
(***************************************************************************)
(* The machine directory of the store (BaselineManager, baseline.rs) with  *)
(* several benchmarks, and the lookup of the analyze command (analyze.rs). *)
(* Names are sequences of characters; `disk` maps each path below           *)
(* machine_dir() to a directory of run files or to a legacy file.          *)
(***************************************************************************)
\* most saves made into the machine directory
MaxDirSaves == 2

\* crate names and benchmark names of the workspace
CrateNames == {<<"g">>, <<"g", "_", "m">>}
BenchmarkNames == {<<"v">>, <<"m", "_", "v">>}

\* format!("{}_{}", crate_name, benchmark_name)
benchmark_dir(crate_name, benchmark_name) == crate_name \o <<"_">> \o benchmark_name

\* format!("{}_{}.json", crate_name, benchmark_name)
legacy_baseline_path(crate_name, benchmark_name) ==
    crate_name \o <<"_">> \o benchmark_name \o <<".json">>

\* a record written in the legacy single-file form by an older version
LegacyRecord(crate_name, benchmark_name) ==
    from_bench_result([mean |-> 10, name |-> benchmark_name, module |-> crate_name,
                       all_timings |-> <<10>>], FALSE, 0)

\* the machine directories a run may find: empty, or holding one legacy file
OlderStores ==
    {<<>>} \cup
    {[p \in {legacy_baseline_path(c, <<"v">>)} |->
         [is_dir |-> FALSE, data |-> LegacyRecord(c, <<"v">>)]] : c \in CrateNames}

\* bench_dir.exists() && bench_dir.is_dir()
exists_dir(d, path) == path \in DOMAIN d /\ d[path].is_dir

\* the *.json entries of fs::read_dir(bench_dir)
read_dir(d, path) == IF exists_dir(d, path) THEN d[path].files ELSE <<>>

\* the content of the legacy file, None if legacy_path.exists() is false
read_legacy(d, crate_name, benchmark_name) ==
    LET legacy_path == legacy_baseline_path(crate_name, benchmark_name)
    IN  IF legacy_path \in DOMAIN d THEN Some(d[legacy_path].data) ELSE None

\* BaselineManager::has_baseline
has_baseline(d, crate_name, benchmark_name) ==
    \/ exists_dir(d, benchmark_dir(crate_name, benchmark_name))
    \/ legacy_baseline_path(crate_name, benchmark_name) \in DOMAIN d

\* what the read operations of the store return for one benchmark
StoreView(d, crate_name, benchmark_name) ==
    LET bench_dir == benchmark_dir(crate_name, benchmark_name)
        dir == exists_dir(d, bench_dir)
        files == read_dir(d, bench_dir)
    IN  [list_runs |-> list_runs(dir, files),
         load_baseline |-> load_baseline(dir, files,
                                         read_legacy(d, crate_name, benchmark_name)),
         load_recent_baselines |->
             [count \in 0..MaxCount |-> load_recent_baselines(dir, files, count)]]

\* position of the first '_' of a name, 0 if there is none (str::find)
find_underscore(name) ==
    IF \E i \in DOMAIN name : name[i] = "_"
    THEN CHOOSE i \in DOMAIN name : name[i] = "_" /\ \A j \in 1..(i - 1) : name[j] # "_"
    ELSE 0

\* find_benchmark of the analyze command: Ok((crate_name, bench_name)) or
\* the "not found" error
find_benchmark(d, benchmark_name) ==
    LET idx == find_underscore(benchmark_name)
        crate_name == SubSeq(benchmark_name, 1, idx - 1)
        bench_name == SubSeq(benchmark_name, idx + 1, Len(benchmark_name))
    IN  IF idx # 0 /\ has_baseline(d, crate_name, bench_name)
        THEN [ok |-> TRUE, crate_name |-> crate_name, bench_name |-> bench_name]
        ELSE [ok |-> FALSE]

\* the state a run of the tool finds: nothing in progress, a machine
\* directory that an older version may have written to
InitMachineDir ==
    /\ disk \in OlderStores
    /\ clock \in StartClocks
    /\ dirExists = FALSE
    /\ runs = <<>>
    /\ saves = 0
    /\ verdicts = <<>>
    /\ ret = [op |-> "none"]
    /\ meas = MeasIdle
    /\ orch = OrchIdle
    /\ kids = <<>>
    /\ chan = [queue |-> <<>>, arrived |-> <<>>]

\* the machine directory after a successful save_baseline(crate_name,
\* result, was_regression): create_dir_all(benchmark_dir), then fs::write of
\* the run file named after the time `now`
WriteRun(d, crate_name, result, was_regression, now, ordinal) ==
    LET bench_dir == benchmark_dir(crate_name, result.name)
        files == read_dir(d, bench_dir)
        path == get_run_path(now)
        baseline == from_bench_result(result, was_regression, ordinal)
    IN  [p \in DOMAIN d \cup {bench_dir} |->
            IF p = bench_dir
            THEN [is_dir |-> TRUE,
                  files |-> [f \in DOMAIN files \cup {path} |->
                               IF f = path THEN baseline ELSE files[f]]]
            ELSE d[p]]

\* BaselineManager::save_baseline(crate_name, result, was_regression)
SaveBaselineIn(crate_name, result, was_regression) ==
    /\ saves < MaxDirSaves
    /\ disk' = WriteRun(disk, crate_name, result, was_regression, clock, saves + 1)
    /\ saves' = saves + 1
    /\ ret' = [op |-> "save_baseline", crate_name |-> crate_name,
               benchmark_name |-> result.name]
    /\ UNCHANGED <<clock, dirExists, runs, verdicts, measureVars, runnerVars>>

\* BaselineManager::load_baseline(crate_name, benchmark_name)
LoadBaselineOf(crate_name, benchmark_name) ==
    /\ ret' = [op |-> "load_baseline", crate_name |-> crate_name,
               benchmark_name |-> benchmark_name,
               value |-> StoreView(disk, crate_name, benchmark_name).load_baseline]
    /\ UNCHANGED <<clock, dirExists, runs, saves, verdicts, measureVars, runnerVars,
                   machineVars>>

\* `cargo simplebench analyze <crate_name>_<benchmark_name>`: run_analysis
\* looks the benchmark up with find_benchmark
Analyze(crate_name, benchmark_name) ==
    /\ ret' = [op |-> "analyze", crate_name |-> crate_name,
               benchmark_name |-> benchmark_name,
               value |-> find_benchmark(disk, benchmark_dir(crate_name, benchmark_name))]
    /\ UNCHANGED <<clock, dirExists, runs, saves, verdicts, measureVars, runnerVars,
                   machineVars>>

\* the results the benchmarks of the workspace report
DirResults == [mean : {10}, name : BenchmarkNames, module : CrateNames, all_timings : {<<10>>}]

\* the store shared by the benchmarks of a workspace
NextMachineDir ==
    \/ RunTick
    \/ \E r \in DirResults, w \in BOOLEAN : SaveBaselineIn(r.module, r, w)
    \/ \E c \in CrateNames, b \in BenchmarkNames : LoadBaselineOf(c, b)
    \/ \E c \in CrateNames, b \in BenchmarkNames : Analyze(c, b)

SpecMachineDir == InitMachineDir /\ [][NextMachineDir]_vars

----------------------------------------------------------------------------
(***************************************************************************)
(* One run of the orchestrator over the listed benchmarks, seen through    *)
(* the identifiers: the listing (list_benchmarks_json), the filter handed  *)
(* to each runner process (run_benchmarks_with_cores), the benchmark that  *)
(* process measures (run_single_benchmark_json) and the record persisted   *)
(* for its result (process_single_result_baseline).                        *)
(***************************************************************************)
\* the benchmarks registered in the runner binary: two names, each defined
\* in two crates
Registered == [name : BenchmarkNames, module : CrateNames]

\* the orders in which inventory::iter yields the registered benchmarks
Inventories ==
    {inv \in [1..Cardinality(Registered) -> Registered] :
        \A i, j \in DOMAIN inv : i # j => inv[i] # inv[j]}

\* run_single_benchmark_json with SIMPLEBENCH_BENCH_FILTER = bench_name: the
\* BenchResult of the first registered benchmark of that name, or exit(1)
run_single_benchmark_json(inventory, bench_name) ==
    IF \E i \in DOMAIN inventory : inventory[i].name = bench_name
    THEN LET first == CHOOSE i \in DOMAIN inventory :
                         /\ inventory[i].name = bench_name
                         /\ \A j \in 1..(i - 1) : inventory[j].name # bench_name
         IN  [ok |-> TRUE,
              result |-> [mean |-> 10, name |-> inventory[first].name,
                          module |-> inventory[first].module, all_timings |-> <<10>>]]
    ELSE [ok |-> FALSE]

\* discover_benchmarks: the runner lists its benchmarks in inventory order
\* and run_benchmarks_with_cores starts on that list
Discover(inventory) ==
    /\ ret.op = "none"
    /\ ret' = [op |-> "run_benchmarks_with_cores", inventory |-> inventory,
               benchmarks |-> inventory, launched |-> 0, child |-> None,
               handled |-> <<>>]
    /\ UNCHANGED <<clock, dirExists, runs, saves, verdicts, measureVars, runnerVars,
                   machineVars>>

\* the runner of the next listed benchmark is spawned with
\* SIMPLEBENCH_BENCH_FILTER = bench.name and reports what it measured
LaunchRunner ==
    /\ ret.op = "run_benchmarks_with_cores"
    /\ ~ret.child.some
    /\ ret.launched < Len(ret.benchmarks)
    /\ LET bench == ret.benchmarks[ret.launched + 1]
       IN  ret' = [ret EXCEPT !.launched = @ + 1,
                              !.child = Some([bench |-> bench,
                                              output |-> run_single_benchmark_json(
                                                             ret.inventory, bench.name)])]
    /\ UNCHANGED <<clock, dirExists, runs, saves, verdicts, measureVars, runnerVars,
                   machineVars>>

\* the Complete message of that runner is handled: its result is persisted
\* by process_single_result_baseline under the crate named by result.module
HandleComplete ==
    /\ ret.op = "run_benchmarks_with_cores"
    /\ ret.child.some
    /\ ret.child.value.output.ok
    /\ LET result == ret.child.value.output.result
       IN  disk' = WriteRun(disk, result.module, result, FALSE, clock, saves + 1)
    /\ saves' = saves + 1
    /\ ret' = [ret EXCEPT !.child = None, !.handled = Append(@, ret.child.value)]
    /\ UNCHANGED <<clock, dirExists, runs, verdicts, measureVars, runnerVars>>

NextLaunch ==
    \/ \E inventory \in Inventories : Discover(inventory)
    \/ LaunchRunner
    \/ HandleComplete
    \/ RunTick

SpecLaunch == Init /\ [][NextLaunch]_vars

----------------------------------------------------------------------------
(***************************************************************************)
(* Properties.                                                             *)
(***************************************************************************)
Range(f) == {f[x] : x \in DOMAIN f}

Stored == Range(runs)

\* the stored record written by the most recent successful save
Newest == CHOOSE r \in Stored : r.timestamp = saves

OrchestratorOps == {"process_single_result_baseline", "run_and_stream_benchmarks"}

\* C1: load_recent_baselines never returns a record flagged was_regression,
\* whatever the history and the count.
C1_NoFlaggedReturned ==
    ret.op = "load_recent_baselines" =>
        \A i \in 1..Len(ret.value) : ~ret.value[i].was_regression

\* C1 case: a load with count >= 1 returned something while the newest
\* stored record is flagged.
C1_Witness ==
    /\ ret.op = "load_recent_baselines"
    /\ ret.count >= 1
    /\ ret.value # <<>>
    /\ saves > 0
    /\ Newest.was_regression

\* C2: load_recent_baselines returns exactly the min(count, number of
\* unflagged records) most recently saved unflagged records, oldest first.
C2_RecentUnflaggedOldestFirst ==
    ret.op = "load_recent_baselines" =>
        LET good == {r \in Stored : ~r.was_regression}
            v == ret.value
        IN  /\ Len(v) = Min(ret.count, Cardinality(good))
            /\ \A i \in 1..Len(v) : v[i] \in good
            /\ \A i, j \in 1..Len(v) : i < j => v[i].timestamp < v[j].timestamp
            /\ \A g \in good \ Range(v) : \A i \in 1..Len(v) : g.timestamp < v[i].timestamp

\* C2 case: two records were returned, a flagged record was saved between
\* them, and an older unflagged record was left out.
C2_Witness ==
    /\ ret.op = "load_recent_baselines"
    /\ Len(ret.value) = 2
    /\ \E r \in Stored : /\ r.was_regression
                         /\ ret.value[1].timestamp < r.timestamp
                         /\ r.timestamp < ret.value[2].timestamp

\* C3 (as claimed): after k successful saves the history holds k records.
C3_OneRecordPerSave == Cardinality(DOMAIN runs) = saves

\* C4: every record the orchestrator persisted carries the verdict of its
\* run, and the window of a run holds no record of a run judged a regression.
C4_VerdictPersistedAndExcluded ==
    /\ \A r \in Stored :
          r.timestamp \in DOMAIN verdicts => r.was_regression = verdicts[r.timestamp]
    /\ (ret.op \in OrchestratorOps /\ ret.historical.some) =>
          \A i \in 1..Len(ret.historical.value) :
             LET h == ret.historical.value[i]
             IN  h.timestamp \in DOMAIN verdicts => ~verdicts[h.timestamp]

\* C4 case: a run got a non-empty window although a newer stored record
\* comes from a run whose verdict was regression.
C4_Witness ==
    /\ ret.op \in OrchestratorOps
    /\ ret.historical.some
    /\ ret.historical.value # <<>>
    /\ \E r \in Stored :
          /\ r.timestamp \in DOMAIN verdicts
          /\ verdicts[r.timestamp]
          /\ r.was_regression
          /\ \E i \in 1..Len(ret.historical.value) :
                ret.historical.value[i].timestamp < r.timestamp
          /\ ret.saved => r.timestamp < saves

\* C5: load_baseline returns the record of the most recent successful save.
C5_LatestIsLastSaved ==
    (ret.op = "load_baseline" /\ saves > 0) =>
        ret.value.some /\ ret.value.value.timestamp = saves

\* C5 case: load_baseline on a history of two or more files.
C5_Witness ==
    /\ ret.op = "load_baseline"
    /\ Cardinality(DOMAIN runs) >= 2
    /\ ret.value.some

\* C6: with an empty window no Comparison is produced, the verdict is not a
\* regression, and the record persisted for the run is unflagged.
C6_EmptyWindowIsNewBaseline ==
    (ret.op \in OrchestratorOps /\ ret.store /\ ret.historical = Some(<<>>)) =>
        /\ ~ret.value.comparison.some
        /\ ~ret.value.is_regression
        /\ ret.saved => ~Newest.was_regression

\* C6 case: a run with an empty window was persisted while the history
\* already held a record (flagged, or the window size was 0).
C6_Witness ==
    /\ ret.op \in OrchestratorOps
    /\ ret.store
    /\ ret.historical = Some(<<>>)
    /\ ret.saved
    /\ Cardinality(Stored) >= 2

Detected == ret.op = "detect_regression_with_cpd"

\* n * current_mean - n * hist_mean of the detection just made
DetectedDelta ==
    Len(ret.historical) * ret.current.mean
    - SeqSum([i \in 1..Len(ret.historical) |-> ret.historical[i].mean])

ClusteredHistory ==
    \A i \in 1..Len(ret.historical) : ret.historical[i].mean \in ClusterMeans

\* C8 (as claimed): a history clustered at 1,000,000 ns and a current mean of
\* 2,000,000 ns give a regression under the default thresholds.
C8_DoubledMeanIsRegression ==
    (Detected /\ ClusteredHistory /\ ret.current.mean = 2000000
        /\ ret.cfg = DefaultConfig) => ret.value.is_regression

\* C9: a current mean at or below the historical mean is never a regression.
C9_FasterIsNeverRegression ==
    (Detected /\ DetectedDelta <= 0) => ~ret.value.is_regression

\* C9 case: a faster run with |z| > 5 whose percentage change exceeds the
\* (negative) threshold.
C9_Witness ==
    /\ Detected
    /\ DetectedDelta < 0
    /\ AbsGt(ret.value.comparison.value.z_score, 5)
    /\ PctGt(ret.value.comparison.value.percentage_change, ret.cfg.threshold)

\* C10: a percentage change that does not exceed the threshold is never a
\* regression (the change is defined: the historical mean is positive).
C10_BelowThresholdIsNeverRegression ==
    LET sum == SeqSum([i \in 1..Len(ret.historical) |-> ret.historical[i].mean])
    IN  (Detected /\ sum > 0 /\ 100 * DetectedDelta <= ret.cfg.threshold * sum)
            => ~ret.value.is_regression

\* C10 case: 1,020,000 ns against a clustered history, threshold 5%, with
\* |z| > 5 and the current mean above the confidence bound.
C10_Witness ==
    /\ Detected
    /\ ClusteredHistory
    /\ ret.current.mean = 1020000
    /\ ret.cfg.threshold = 5
    /\ AbsGt(ret.value.comparison.value.z_score, 5)
    /\ ExceedsBound(ret.current.mean, ret.value.comparison.value.upper_bound)

----------------------------------------------------------------------------
(***************************************************************************)
(* Properties of the measurement engine.                                   *)
(***************************************************************************)
\* the invocations of the benchmark closure made in one phase
BenchCalls(phase) ==
    {i \in DOMAIN meas.calls : meas.calls[i].fn = "bench" /\ meas.calls[i].phase = phase}

\* the printed progress events of one phase
Events(phase) == {i \in DOMAIN meas.stderr : meas.stderr[i].phase = phase}

\* C11: a configuration whose sample count is invalid (zero) is rejected
\* before any measurement: neither setup nor the workload is ever invoked
\* and percentile computation is never reached on an empty timing list.
C11_ZeroSamplesRejected ==
    (meas.pc # "idle" /\ validate_measurement_params(meas.samples) # "Ok")
        => /\ meas.calls = <<>>
           /\ meas.pc # "panicked"

\* the printed events are ordered Warmup -> Sampling -> Complete, with
\* strictly increasing sample indices and nothing after a complete event
ProgressOrdered ==
    \A i, j \in DOMAIN meas.stderr :
        i < j => /\ meas.stderr[i].phase # "complete"
                 /\ meas.stderr[i].phase = "samples" => meas.stderr[j].phase # "warmup"
                 /\ (meas.stderr[i].phase = "samples" /\ meas.stderr[j].phase = "samples")
                        => meas.stderr[i].current < meas.stderr[j].current

\* C18 as stated: for every measurement the emitted events are ordered
\* Warmup -> Sampling -> Complete with strictly increasing sample indices,
\* and once the sampling loop is over exactly one complete event has been
\* emitted, after the last sample and after every other event.
C18_ProgressStateMachine ==
    /\ ProgressOrdered
    /\ Events("complete") # {} => meas.sample_idx = meas.samples
    /\ meas.pc = "done" => Cardinality(Events("complete")) = 1

\* C18 amended: the order holds for whatever is emitted; exactly one
\* complete event is emitted at the end when progress output is enabled, and
\* no event at all is emitted when SIMPLEBENCH_QUIET is set.
C18_ProgressStateMachineUnlessQuiet ==
    /\ ProgressOrdered
    /\ Events("complete") # {} => meas.sample_idx = meas.samples
    /\ (meas.pc = "done" /\ ~meas.quiet) => Cardinality(Events("complete")) = 1
    /\ meas.quiet => meas.stderr = <<>>

C18_Witness ==
    /\ meas.pc = "done"
    /\ meas.kind = "setup_each"
    /\ ~meas.quiet
    /\ Events("warmup") # {}
    /\ Cardinality(Events("samples")) >= 2
    /\ meas.stderr[Len(meas.stderr)].phase = "complete"

\* C19: a measurement configured with n >= 1 samples returns exactly n
\* timings and n CPU snapshots and reports samples = n; at every moment the
\* timings are exactly those of the sampling-phase invocations made so far,
\* so no warmup iteration contributes one.
C19_ExactlyNSamples ==
    /\ Len(meas.all_timings) = Cardinality(BenchCalls("sample"))
    /\ Len(meas.cpu_samples) = Len(meas.all_timings)
    /\ Cardinality(BenchCalls("warmup")) = meas.total_iterations
    /\ (meas.pc = "sampling" /\ meas.sample_idx = meas.samples /\ meas.samples >= 1)
          => Len(meas.all_timings) = meas.samples
    /\ (meas.pc \in {"done", "panicked"} /\ meas.samples >= 1)
          => /\ meas.pc = "done"
             /\ meas.result.value.samples = meas.samples
             /\ Len(meas.result.value.all_timings) = meas.samples
             /\ Len(meas.result.value.cpu_samples) = meas.samples
             /\ Cardinality(BenchCalls("sample")) = meas.samples
             /\ meas.result.value.warmup_iterations = Cardinality(BenchCalls("warmup"))

C19_Witness ==
    /\ meas.pc = "done"
    /\ meas.samples >= 2
    /\ meas.total_iterations >= 2
    /\ Len(meas.result.value.all_timings) = meas.samples

\* C20: in measure_with_setup the setup closure is called exactly once, as
\* the very first call, and every warmup iteration and every sample gets
\* the data that call produced.
C20_SetupOnce ==
    (meas.kind = "setup" /\ meas.pc # "idle")
        => /\ SetupCount(meas) = 1
           /\ meas.calls[1].fn = "setup"
           /\ \A i \in DOMAIN meas.calls :
                 i > 1 => /\ meas.calls[i].fn = "bench"
                          /\ meas.calls[i].data = meas.calls[1].data

C20_Witness ==
    /\ meas.kind = "setup"
    /\ meas.pc = "done"
    /\ BenchCalls("warmup") # {}
    /\ Cardinality(BenchCalls("sample")) >= 2

\* the invocations of the setup closure made in one phase
SetupCalls(phase) ==
    {i \in DOMAIN meas.calls : meas.calls[i].fn = "setup" /\ meas.calls[i].phase = phase}

\* C21: in measure_with_setup_each and measure_with_setup_each_ref setup is
\* called exactly once for every sample and every warmup iteration, directly
\* before the workload call it is made for and never while the sample's
\* timer runs (only the workload call of a sample is timed); each workload
\* call gets the data of the setup call made for it, which no earlier call
\* was given.
C21_SetupEachSample ==
    (meas.kind \in {"setup_each", "setup_each_ref"} /\ meas.pc # "idle")
        => /\ Cardinality(SetupCalls("sample")) = meas.sample_idx
           /\ Cardinality(SetupCalls("warmup")) = meas.total_iterations
           /\ Len(meas.calls) = 2 * (meas.sample_idx + meas.total_iterations)
           /\ \A i \in DOMAIN meas.calls :
                 IF i % 2 = 1
                 THEN /\ meas.calls[i].fn = "setup"
                      /\ ~meas.calls[i].timed
                      /\ \A j \in 1..(i - 1) : meas.calls[j].data # meas.calls[i].data
                 ELSE /\ meas.calls[i].fn = "bench"
                      /\ meas.calls[i].phase = meas.calls[i - 1].phase
                      /\ meas.calls[i].data = meas.calls[i - 1].data
                      /\ meas.calls[i].timed <=> meas.calls[i].phase = "sample"
           /\ meas.pc = "done" => Cardinality(SetupCalls("sample")) = meas.samples

\* C23: whichever entry point runs the measurement and whatever the value
\* of SIMPLEBENCH_PIN_CORE (unset and unparsable included), the core whose
\* frequency the sampling loop reads is the core its thread was pinned to.
C23_MonitorReadsPinnedCore ==
    (meas.sample_idx >= 1 /\ meas.pinned.some) => meas.cpu_core = meas.pinned

C21_Witness ==
    /\ meas.kind = "setup_each_ref"
    /\ meas.pc = "done"
    /\ Cardinality(SetupCalls("warmup")) >= 1
    /\ Cardinality(SetupCalls("sample")) >= 2
    /\ meas.calls[Len(meas.calls)].timed

----------------------------------------------------------------------------
(***************************************************************************)
(* Properties of the execution orchestrator.                               *)
(***************************************************************************)
\* the benchmarks whose runner has been spawned, and those still running
Spawned == {b \in DOMAIN kids : kids[b].proc # "none"}
Running == {b \in DOMAIN kids : kids[b].proc = "running"}
\* the benchmarks whose Complete message the orchestrator has handled
Completed == Range(orch.all_results) \cup Range(orch.failed)
\* the number (from 0) of the batch benchmark b belongs to
BatchIndex(b) == (b - 1) \div Len(orch.cores)
\* positions of the Complete message of benchmark b in a message sequence
CompleteAt(msgs, b) ==
    {i \in DOMAIN msgs : msgs[i].type = "Complete" /\ msgs[i].bench = b}

\* C12: no runner of a later batch is spawned before the Complete message
\* of every benchmark of the earlier batches has been received, and never
\* more than core-count benchmarks are in flight.
C12_BatchesInSequence ==
    orch.pc # "idle"
        => /\ \A a, b \in DOMAIN kids :
                 (b \in Spawned /\ BatchIndex(a) < BatchIndex(b)) => a \in Completed
           /\ Cardinality(Spawned \ Completed) <= Len(orch.cores)
           /\ orch.pc = "drain"
                 => orch.pending = Cardinality(Spawned \ Completed)

C12_Witness ==
    /\ Len(orch.cores) = 2
    /\ kids[3].proc = "running"
    /\ Completed = {1, 2}
    /\ orch.all_results = <<2, 1>>

\* C13: a runner that exits non-zero or prints a malformed result is
\* reported as failed and skipped, the other runners of its batch and the
\* later batches are still run, and the run returns Ok with the results of
\* exactly the successful benchmarks, each compared and persisted.
C13_ChildFailureSkipped ==
    orch.pc # "idle"
        => /\ \A b \in Completed :
                 /\ b \in Range(orch.failed) <=> (kids[b].status # 0 \/ ~kids[b].valid)
                 /\ b \in Range(orch.all_results) <=> (kids[b].status = 0 /\ kids[b].valid)
           /\ orch.all_comparisons = orch.all_results
           /\ StoreBench \in Range(orch.all_results)
                 => /\ ret.op = "process_single_result_baseline"
                    /\ ret.saved
                    /\ saves = 1
           /\ (orch.pc = "drain" /\ Range(orch.failed) # {})
                 => orch.pending = Cardinality(Spawned \ Completed)
           /\ orch.pc = "done"
                 => /\ Completed = 1..orch.n
                    /\ Len(orch.all_results) + Len(orch.failed) = orch.n

C13_Witness ==
    /\ orch.pc = "done"
    /\ Len(orch.cores) = 2
    /\ orch.failed = <<2>>
    /\ orch.all_results = <<1, 3>>
    /\ kids[2].status # 0
    /\ saves = 1

\* C14: a failure to launch the runner of one benchmark does not abort the
\* orchestrator.
C14_SpawnFailureDoesNotAbort == orch.pc # "panicked"

\* C15: the runners running at the same time are pinned to pairwise
\* distinct cores, none of them core 0; the i-th benchmark of a batch gets
\* cores[i], the core list has no duplicates, and sequential mode uses
\* core 1 only.
C15_DistinctCores ==
    orch.pc # "idle"
        => /\ \A a, b \in Running : a # b => kids[a].core # kids[b].core
           /\ \A b \in Spawned :
                 /\ kids[b].core # 0
                 /\ kids[b].core = orch.cores[((b - 1) % Len(orch.cores)) + 1]
           /\ \A i, j \in DOMAIN orch.cores : i # j => orch.cores[i] # orch.cores[j]
           /\ \A i \in DOMAIN orch.cores : orch.cores[i] # 0
           /\ ~orch.parallel => \A b \in Spawned : kids[b].core = 1

C15_Witness ==
    /\ Cardinality(Running) = 2
    /\ \E a, b \in Running : kids[a].core = 1 /\ kids[b].core = 2

\* C16: while a batch is drained the messages are handled in the order
\* they arrived on the channel, results are pushed in the order of their
\* Complete messages, and no Progress of a benchmark is handled after, or
\* still waits behind, the Complete of that benchmark.
C16_ArrivalOrder ==
    orch.pc \in {"spawn", "drain"}
        => /\ orch.handled \o chan.queue = chan.arrived
           /\ \A i, j \in DOMAIN orch.handled :
                 (orch.handled[i].type = "Complete"
                     /\ orch.handled[j].bench = orch.handled[i].bench) => j <= i
           /\ \A i \in DOMAIN orch.handled, j \in DOMAIN chan.queue :
                 orch.handled[i].type = "Complete"
                     => chan.queue[j].bench # orch.handled[i].bench
           /\ \A i, j \in DOMAIN orch.handled :
                 (i < j /\ orch.handled[i].type = "Complete" /\ orch.handled[i].ok
                        /\ orch.handled[j].type = "Complete" /\ orch.handled[j].ok)
                     => \E p, q \in DOMAIN orch.all_results :
                           /\ p < q
                           /\ orch.all_results[p] = orch.handled[i].bench
                           /\ orch.all_results[q] = orch.handled[j].bench

C16_Witness ==
    /\ orch.pc = "drain"
    /\ orch.lo = 1
    /\ Len(orch.handled) = 2
    /\ orch.handled[1].type = "Progress" /\ orch.handled[1].bench = 2
    /\ orch.handled[2].type = "Complete" /\ orch.handled[2].bench = 2
    /\ kids[1].proc = "running"

\* C17: with every runner eventually exiting, for every interleaving of
\* its writes to stdout and stderr each runner yields one Complete message
\* and no more, a run that returns has drained every batch, and every run
\* ends (so every drain loop that is entered is left).
C17_EveryBatchDrains ==
    /\ [](\A b \in DOMAIN kids : Cardinality(CompleteAt(chan.arrived, b)) <= 1)
    /\ [](orch.pc = "done" => (Completed = 1..orch.n /\ orch.pending = 0))
    /\ (orch.pc # "idle") ~> (orch.pc \in {"done", "panicked"})

C17_Witness ==
    /\ orch.pc = "done"
    /\ Len(orch.cores) = 2
    /\ Completed = 1..orch.n
    /\ \E b \in DOMAIN kids : kids[b].stdout_content > PipeCap
    /\ \E b \in DOMAIN kids : ~kids[b].valid

----------------------------------------------------------------------------
(***************************************************************************)
(* Properties of the machine directory and of the analyze lookup.          *)
(***************************************************************************)
\* the legacy single files of a machine directory
LegacyFiles(d) == {p \in DOMAIN d : ~d[p].is_dir}

\* C22: when no run directory exists for a benchmark and its legacy single
\* file does, load_baseline returns the record of the legacy file; a
\* save_baseline leaves every legacy file as it was, creates none, and puts
\* its record into the run directory of its benchmark under the run path.
C22_LegacyFallback ==
    /\ [](ret.op = "load_baseline"
            => LET bench_dir == benchmark_dir(ret.crate_name, ret.benchmark_name)
                   legacy_path == legacy_baseline_path(ret.crate_name, ret.benchmark_name)
               IN  (~exists_dir(disk, bench_dir) /\ legacy_path \in LegacyFiles(disk))
                      => ret.value = Some(disk[legacy_path].data))
    /\ [][saves' = saves + 1
            => /\ LegacyFiles(disk') = LegacyFiles(disk)
               /\ \A p \in LegacyFiles(disk) : disk'[p] = disk[p]
               /\ LET bench_dir == benchmark_dir(ret'.crate_name, ret'.benchmark_name)
                  IN  /\ exists_dir(disk', bench_dir)
                      /\ get_run_path(clock) \in DOMAIN disk'[bench_dir].files
                      /\ disk'[bench_dir].files[get_run_path(clock)].timestamp = saves']_vars

C22_Witness ==
    /\ ret.op = "load_baseline"
    /\ saves >= 1
    /\ ~exists_dir(disk, benchmark_dir(ret.crate_name, ret.benchmark_name))
    /\ legacy_baseline_path(ret.crate_name, ret.benchmark_name) \in LegacyFiles(disk)
    /\ ret.value = Some(LegacyRecord(ret.crate_name, ret.benchmark_name))

\* a record saved for this crate and benchmark is in the store
StoredFor(d, crate_name, benchmark_name) ==
    \/ \E f \in DOMAIN read_dir(d, benchmark_dir(crate_name, benchmark_name)) :
          LET baseline == read_dir(d, benchmark_dir(crate_name, benchmark_name))[f]
          IN  baseline.module = crate_name /\ baseline.benchmark_name = benchmark_name
    \/ LET legacy == read_legacy(d, crate_name, benchmark_name)
       IN  /\ legacy.some
           /\ legacy.value.module = crate_name
           /\ legacy.value.benchmark_name = benchmark_name

\* C27: for a crate and benchmark with a stored baseline, analyze given
\* <crate_name>_<benchmark_name> resolves the string to that crate and that
\* benchmark.
C27_AnalyzeResolvesStored ==
    (ret.op = "analyze" /\ StoredFor(disk, ret.crate_name, ret.benchmark_name))
        => ret.value = [ok |-> TRUE, crate_name |-> ret.crate_name,
                        bench_name |-> ret.benchmark_name]

\* C29: a save for one (crate, benchmark) pair leaves what list_runs,
\* load_baseline and load_recent_baselines return for every other pair as
\* it was.
C29_DisjointHistories ==
    [][saves' = saves + 1
         => \A c \in CrateNames, b \in BenchmarkNames :
               <<c, b>> # <<ret'.crate_name, ret'.benchmark_name>>
                  => StoreView(disk', c, b) = StoreView(disk, c, b)]_vars

\* C24: for a non-empty sample list calculate_statistics returns
\* min <= median <= p90 <= p99 <= max and sample_count equal to the length
\* of the list, and in the record built by from_bench_result
\* statistics.sample_count is the number of stored raw samples.
C24_StatisticsOrdered ==
    /\ (ret.op = "calculate_statistics" /\ ret.samples # <<>>)
          => /\ ret.value.min <= ret.value.median
             /\ ret.value.median <= ret.value.p90
             /\ ret.value.p90 <= ret.value.p99
             /\ ret.value.p99 <= ret.value.max
             /\ ret.value.sample_count = Len(ret.samples)
             /\ \A i \in DOMAIN ret.samples :
                   ret.value.min <= ret.samples[i] /\ ret.samples[i] <= ret.value.max
    /\ ret.op = "from_bench_result"
          => /\ ret.value.samples = ret.timings
             /\ ret.value.statistics.sample_count = Len(ret.value.samples)
             /\ ret.value.statistics = calculate_statistics(ret.value.samples)

C24_Witness ==
    /\ ret.op = "calculate_statistics"
    /\ Len(ret.samples) = MaxStatSamples
    /\ ret.samples[1] > ret.samples[2]
    /\ ret.value.min < ret.value.median
    /\ ret.value.median < ret.value.p90
    /\ ret.value.p90 < ret.value.p99
    /\ ret.value.p99 = ret.value.max

\* C25: for a fixed non-empty history and a fixed observation the change
\* point probability does not decrease when the hazard rate grows, also
\* where it is clamped at 1, and stays within [0, 1]; for an empty history it
\* is 0 under every hazard rate.
C25_MonotoneInHazardRate ==
    ret.op = "bayesian_change_point_probability"
        => /\ \A h1, h2 \in HazardRates : h1 <= h2 => ret.value[h1] <= ret.value[h2]
           /\ \A h \in HazardRates : ret.value[h] \in 0..PScale
           /\ ret.historical = <<>> => \A h \in HazardRates : ret.value[h] = 0

C25_Witness ==
    /\ ret.op = "bayesian_change_point_probability"
    /\ Len(ret.historical) >= 2
    /\ ret.value[0] > 0
    /\ ret.value[0] < ret.value[100]
    /\ ret.value[100] < ret.value[300]
    /\ ret.value[300] < PScale
    /\ ret.value[500] = PScale
    /\ ret.value[1000] = PScale

----------------------------------------------------------------------------
(***************************************************************************)
(* Properties of the orchestrator's handling of results and I/O failures.  *)
(***************************************************************************)
\* C26: when loading or saving the baseline fails with an I/O error while
\* the result of a benchmark is processed, a warning is printed and a
\* comparison result is still produced for the benchmark.
C26_IoFailureWarned ==
    (ret.op \in OrchestratorOps /\ ret.store /\ (~ret.historical.some \/ ~ret.saved))
        => /\ ret.warnings # <<>>
           /\ ret.op = "run_and_stream_benchmarks" => ret.pushed

\* C30: with a store, handling a Complete message that carries a result
\* makes exactly one save_baseline attempt, whether the history was found,
\* was empty or could not be loaded: a successful attempt adds exactly one
\* record, flagged with the verdict returned, and unflagged when the load
\* failed; a failed attempt adds none; handling a Complete message that
\* carries an error, or a result without a store, changes nothing in the
\* store.
C30_OneSavePerResult ==
    [][clock' = clock =>
       /\ (ret'.op = "process_single_result_baseline" /\ ret'.store /\ ret'.saved)
            => /\ saves' = saves + 1
               /\ \E f \in DOMAIN runs' :
                     /\ runs'[f].timestamp = saves'
                     /\ runs'[f].was_regression = ret'.value.is_regression
                     /\ ~ret'.historical.some => ~runs'[f].was_regression
                     /\ \A g \in DOMAIN runs' \ {f} : g \in DOMAIN runs /\ runs'[g] = runs[g]
       /\ (ret'.op = "process_single_result_baseline" /\ ret'.store /\ ~ret'.saved)
            => (saves' = saves /\ runs' = runs /\ ret'.warnings # <<>>)
       /\ (ret'.op = "failed_benchmark"
              \/ (ret'.op = "process_single_result_baseline" /\ ~ret'.store))
            => (saves' = saves /\ runs' = runs /\ dirExists' = dirExists)]_vars

C30_Witness ==
    /\ ret.op = "process_single_result_baseline"
    /\ ret.store
    /\ ~ret.historical.some
    /\ ret.saved
    /\ saves >= 2
    /\ \E f \in DOMAIN runs : runs[f].timestamp = saves /\ ~runs[f].was_regression
    /\ \E f \in DOMAIN runs : runs[f].timestamp < saves

\* C28: the runner launched for a listed identifier {name, group} measures
\* the benchmark of that name and that group, also when a benchmark of the
\* same name is listed for another group; its result carries that group and
\* a record of that name and group is persisted for it.
C28_LaunchedIsMeasured ==
    ret.op = "run_benchmarks_with_cores"
        => \A i \in DOMAIN ret.handled :
              LET bench == ret.handled[i].bench
                  output == ret.handled[i].output
              IN  /\ output.ok
                  /\ output.result.name = bench.name
                  /\ output.result.module = bench.module
                  /\ StoredFor(disk, bench.module, bench.name)

====
